---- MODULE Spec2Model ----
(***************************************************************************)
(* Header-transformation and redirect-resolution pipeline of the proxy     *)
(* entry points of feedback-studio:                                        *)
(*   "mw"   src/middleware.js             (Edge middleware, chatgpt.com)   *)
(*   "api"  src/app/[...path]/route.js    lines 147-291 (/api/proxy/...)   *)
(*   "tn"   src/app/[...path]/route.js    lines 1-145   (ev.turnitin.com)  *)
(*   "tns"  src/app/[...path]/s.js                      (ev.turnitin.com)  *)
(*                                                                         *)
(* Strings are sequences of tokens.  A token is one of the delimiters      *)
(* "/", ":", "?", ";", "=", " ", ", " or a word (a run of ordinary         *)
(* characters).  A header value is a string; a Headers object is a function*)
(* from lower-cased names to the sequence of that name's occurrences.      *)
(***************************************************************************)
EXTENDS Integers, Sequences, FiniteSets, TLC

VARIABLES
    inject,     \* INJECT_COOKIES / INJECTED_COOKIE, read once from the environment
    pc,         \* position of the exchange
    variant,    \* entry point serving the exchange
    req,        \* inbound request: [method, url, headers]
    call,       \* the outbound request in flight or last made: [url, method, headers, body]
    prevUrl,    \* the URL (string) of the outbound request before `call`
    nCalls,     \* outbound requests issued in this exchange
    hop,        \* fetchFollow's loop counter i
    lastRes,    \* the last upstream response received
    nRedir,     \* upstream answers that were a 3xx carrying a Location header
    onlyRedir,  \* every upstream answer so far was a 3xx carrying a Location header
    netFail,    \* the outbound call whose fetch rejected: "none", "first", "hop", "retry"
    res,        \* the response returned to the caller
    fx          \* result of a helper applied on its own: [fn, in, arg, out]

vars == <<inject, pc, variant, req, call, prevUrl, nCalls, hop, lastRes, nRedir,
          onlyRedir, netFail, res, fx>>

----------------------------------------------------------------------------
(* Strings *)

Null == <<"<null>">>

Truthy(v) == v # Null /\ v # <<>>

Delims == {"/", ":", "?", ";", "=", " ", ", "}

IsWord(t) == t \notin Delims

StartsWith(s, p) == Len(s) >= Len(p) /\ SubSeq(s, 1, Len(p)) = p

EndsWith(s, p) == Len(s) >= Len(p) /\ SubSeq(s, Len(s) - Len(p) + 1, Len(s)) = p

Drop(s, n) == SubSeq(s, n + 1, Len(s))

\* index of the first token of s in set D, Len(s)+1 when there is none
IndexIn(s, D) ==
    IF \E k \in 1..Len(s) : s[k] \in D
    THEN CHOOSE k \in 1..Len(s) : s[k] \in D /\ \A j \in 1..(k - 1) : s[j] \notin D
    ELSE Len(s) + 1

\* s without its leading "/" tokens
StripSlashes(s) ==
    LET k == IF \E j \in 1..Len(s) : s[j] # "/"
             THEN CHOOSE j \in 1..Len(s) : s[j] # "/" /\ \A m \in 1..(j - 1) : s[m] = "/"
             ELSE Len(s) + 1
    IN  Drop(s, k - 1)

\* all strings over alphabet A of length lo..hi
Strings(A, lo, hi) == UNION {[1..n -> A] : n \in lo..hi}

----------------------------------------------------------------------------
(* URLs: the WHATWG parser that `new URL(input, base)` runs, over tokens.  *)
(* A URL is [ok, scheme, host, path, search]; ok = FALSE is the TypeError  *)
(* `new URL` throws.                                                       *)

BadURL == [ok |-> FALSE, scheme |-> <<>>, host |-> <<>>, path |-> <<>>, search |-> <<>>]

NoBase == BadURL

SpecialSchemes == {<<"https">>, <<"http">>}

\* words that cannot stand in a scheme ("_" is no scheme character)
NonSchemeWords == {"_next"}

\* path state and query state: the path runs to the first "?"
PathAndQuery(r) ==
    LET k == IndexIn(r, {"?"})
    IN  [path |-> SubSeq(r, 1, k - 1),
         search |-> IF k >= Len(r) THEN <<>> ELSE Drop(r, k - 1)]

\* authority state and host state: host[:port] up to the first "/" or "?"
ParseAuthority(scheme, r) ==
    LET special == scheme \in SpecialSchemes
        k    == IndexIn(r, {"/", "?"})
        auth == SubSeq(r, 1, k - 1)
        c    == IndexIn(auth, {":"})
        host == SubSeq(auth, 1, c - 1)
        port == Drop(auth, c)
        pq   == PathAndQuery(Drop(r, k - 1))
    IN  IF (special /\ host = <<>>)
           \/ port # <<>>                        \* no digit tokens: a port never parses
           \/ \E j \in 1..Len(host) : ~IsWord(host[j])
        THEN BadURL
        ELSE [ok |-> TRUE, scheme |-> scheme, host |-> host,
              path |-> IF pq.path = <<>> /\ special THEN <<"/">> ELSE pq.path,
              search |-> pq.search]

\* relative state, relative slash state, path state against a special base
ParseRelative(s, base) ==
    IF s = <<>> THEN base
    ELSE IF s[1] = "/"
    THEN IF Len(s) >= 2 /\ s[2] = "/"
         THEN ParseAuthority(base.scheme, StripSlashes(s))
         ELSE LET pq == PathAndQuery(s)
              IN  [base EXCEPT !.path = pq.path, !.search = pq.search]
    ELSE IF s[1] = "?"
    THEN [base EXCEPT !.search = IF Len(s) = 1 THEN <<>> ELSE s]
    ELSE LET pq   == PathAndQuery(s)
             last == CHOOSE k \in 1..Len(base.path) :
                        base.path[k] = "/" /\ \A j \in (k + 1)..Len(base.path) : base.path[j] # "/"
         IN  [base EXCEPT !.path = SubSeq(base.path, 1, last) \o pq.path,
                          !.search = pq.search]

\* new URL(s, base); base = NoBase for new URL(s)
ParseURL(s, base) ==
    LET k == IndexIn(s, Delims)
        hasScheme == /\ k > 1 /\ k <= Len(s) /\ s[k] = ":"
                     /\ \A j \in 1..(k - 1) : s[j] \notin NonSchemeWords
        scheme == SubSeq(s, 1, k - 1)
        rest   == Drop(s, k)
    IN  IF hasScheme
        THEN IF scheme \in SpecialSchemes
             THEN IF base.ok /\ base.scheme = scheme /\ ~StartsWith(rest, <<"/", "/">>)
                  THEN ParseRelative(rest, base)            \* special relative or authority
                  ELSE ParseAuthority(scheme, StripSlashes(rest))
             ELSE IF StartsWith(rest, <<"/", "/">>)
                  THEN ParseAuthority(scheme, Drop(rest, 2))
                  ELSE [ok |-> TRUE, scheme |-> scheme, host |-> <<>>,
                        path |-> rest, search |-> <<>>]     \* opaque path
        ELSE IF base.ok THEN ParseRelative(s, base) ELSE BadURL

\* url.toString()
Serialize(u) ==
    IF u.scheme \in SpecialSchemes \/ u.host # <<>>
    THEN u.scheme \o <<":", "/", "/">> \o u.host \o u.path \o u.search
    ELSE u.scheme \o <<":">> \o u.path \o u.search

\* url.origin
Origin(u) == u.scheme \o <<":", "/", "/">> \o u.host

----------------------------------------------------------------------------
(* Headers objects (WHATWG Headers): lower-cased name -> occurrences.      *)

\* String.prototype.toLowerCase on the header names and letters in use
ToLower(n) ==
    CASE n = "Connection"        -> "connection"
      [] n = "Keep-Alive"        -> "keep-alive"
      [] n = "TE"                -> "te"
      [] n = "Upgrade"           -> "upgrade"
      [] n = "Transfer-Encoding" -> "transfer-encoding"
      [] n = "Host"              -> "host"
      [] n = "Cookie"            -> "cookie"
      [] n = "Set-Cookie"        -> "set-cookie"
      [] n = "Content-Length"    -> "content-length"
      [] n = "User-Agent"        -> "user-agent"
      [] n = "Origin"            -> "origin"
      [] n = "Location"          -> "location"
      [] n = "G"                 -> "g"
      [] n = "A"                 -> "a"
      [] n = "I"                 -> "i"
      [] n = "D"                 -> "d"
      [] OTHER                   -> n

EmptyHeaders == [n \in {} |-> <<>>]

HHas(h, k) == ToLower(k) \in DOMAIN h

\* headers.set(k, v)
HSet(h, k, v) == [n \in DOMAIN h \cup {ToLower(k)} |-> IF n = ToLower(k) THEN <<v>> ELSE h[n]]

\* headers.append(k, v)
HAppend(h, k, v) ==
    [n \in DOMAIN h \cup {ToLower(k)} |->
        IF n = ToLower(k)
        THEN (IF n \in DOMAIN h THEN h[n] ELSE <<>>) \o <<v>>
        ELSE h[n]]

\* headers.delete(k)
HDelete(h, k) == [n \in DOMAIN h \ {ToLower(k)} |-> h[n]]

RECURSIVE JoinVals(_)
\* the occurrences of one name combined with ", "
JoinVals(vs) ==
    IF Len(vs) = 0 THEN <<>>
    ELSE IF Len(vs) = 1 THEN vs[1]
    ELSE vs[1] \o <<", ">> \o JoinVals(Tail(vs))

\* headers.get(k): null when absent, the combined value otherwise
HGet(h, k) == IF HHas(h, k) THEN JoinVals(h[ToLower(k)]) ELSE Null

\* a || b
OrElse(a, b) == IF Truthy(a) THEN a ELSE b

\* a ?? b
Coalesce(a, b) == IF a # Null THEN a ELSE b

RECURSIVE HeadersFromRaw(_)
\* the Headers object the runtime builds from the header lines of a message
HeadersFromRaw(raw) ==
    IF raw = <<>> THEN EmptyHeaders
    ELSE LET init == HeadersFromRaw(SubSeq(raw, 1, Len(raw) - 1))
             e    == raw[Len(raw)]
         IN  HAppend(init, e[1], e[2])

\* headers.forEach((value, key) => { if (!drop(key)) out.set(key.toLowerCase(), value) }):
\* each name is visited with its combined value, set-cookie once per occurrence
\* (the last out.set wins)
CopyExcept(h, drop) ==
    LET kept == {k \in DOMAIN h : ToLower(k) \notin drop}
    IN  [n \in {ToLower(k) : k \in kept} |->
            LET k == CHOOSE k \in kept : ToLower(k) = n
            IN  IF k = "set-cookie" THEN <<h[k][Len(h[k])]>> ELSE <<JoinVals(h[k])>>]

RECURSIVE SetEach(_, _)
\* for (const [k, v] of Object.entries(obj)) out.set(k.toLowerCase(), v)
SetEach(out, obj) ==
    IF obj = <<>> THEN out
    ELSE SetEach(HSet(out, ToLower(obj[1][1]), obj[1][2]), Tail(obj))

RECURSIVE ObjSpread(_, _)
\* { ...a, ...b } on objects kept as sequences of <<key, value>> in insertion order
ObjSpread(a, b) ==
    IF b = <<>> THEN a
    ELSE LET e == b[1]
             a1 == IF \E i \in 1..Len(a) : a[i][1] = e[1]
                   THEN [i \in 1..Len(a) |-> IF a[i][1] = e[1] THEN e ELSE a[i]]
                   ELSE Append(a, e)
         IN  ObjSpread(a1, Tail(b))

\* obj[key]: Null (undefined) when the object has no such key
ObjGet(obj, key) ==
    IF \E i \in 1..Len(obj) : obj[i][1] = key
    THEN obj[CHOOSE i \in 1..Len(obj) : obj[i][1] = key][2]
    ELSE Null

----------------------------------------------------------------------------
(* Configuration and helpers of the entry points *)

UPSTREAM == <<"https", ":", "/", "/", "chatgpt.com">>

UPSTREAM_HOST == <<"ev.turnitin.com">>

HOP_BY_HOP == {"connection", "keep-alive", "proxy-authenticate", "proxy-authorization",
               "te", "trailer", "transfer-encoding", "upgrade"}

DefaultUserAgent ==
    <<"Mozilla/5.0 (Windows NT 10.0; Win64; x64) AppleWebKit/537.36 (KHTML, like Gecko) Chrome/124.0 Safari/537.36">>

DefaultMaxHops == 5

DefaultMaxLen == 4096

FetchFollowVariants == {"mw", "api"}

TurnitinVariants == {"tn", "tns"}

\* new URL(UPSTREAM)
UpstreamUrl == ParseURL(UPSTREAM, NoBase)

\* the scheme and host every outbound request of variant v is meant to carry
UpstreamHostOf(v) == IF v \in FetchFollowVariants THEN UpstreamUrl.host ELSE UPSTREAM_HOST

(* mergeCookies: cookie strings are strings of single-character tokens *)

TrackingPrefixes == {<<"_", "g", "a">>, <<"_", "g", "i", "d">>,
                     <<"_", "g", "c", "l", "_", "a", "u">>, <<"_", "_", "u", "t", "m">>,
                     <<"_", "h", "j">>, <<"a", "p", "t", ".">>}

\* /^(_ga|_gid|_gcl_au|__utm|_hj|apt\.)/i.test(name)
IsTracking(name) ==
    \E p \in TrackingPrefixes :
        /\ Len(name) >= Len(p)
        /\ \A i \in 1..Len(p) : ToLower(name[i]) = p[i]

RECURSIVE Split(_, _)
\* str.split(d)
Split(str, d) ==
    LET k == IndexIn(str, {d})
    IN  IF k > Len(str) THEN <<str>>
        ELSE <<SubSeq(str, 1, k - 1)>> \o Split(Drop(str, k), d)

RECURSIVE Trim(_)
\* str.trim()
Trim(str) ==
    IF str = <<>> THEN str
    ELSE IF str[1] = " " THEN Trim(Tail(str))
    ELSE IF str[Len(str)] = " " THEN Trim(SubSeq(str, 1, Len(str) - 1))
    ELSE str

\* map.set that keeps the first value of a name: `if (!map.has(name)) map.set(name, value)`
MapSetKeepFirst(map, name, value) ==
    IF \E i \in 1..Len(map) : map[i][1] = name THEN map ELSE Append(map, <<name, value>>)

\* a Map that lists its newest name first
MapSetNewestFirst(map, name, value) ==
    IF \E i \in 1..Len(map) : map[i][1] = name
    THEN [i \in 1..Len(map) |-> IF map[i][1] = name THEN <<name, value>> ELSE map[i]]
    ELSE <<<<name, value>>>> \o map

\* map.set(name, value) on a Map kept as a sequence of <<name, value>> in insertion order
MapSet(map, name, value) ==
    IF \E i \in 1..Len(map) : map[i][1] = name
    THEN [i \in 1..Len(map) |-> IF map[i][1] = name THEN <<name, value>> ELSE map[i]]
    ELSE Append(map, <<name, value>>)

RECURSIVE MergeParts(_, _)
\* the inner loop of mergeCookies over the parts of one cookie string
MergeParts(map, parts) ==
    IF parts = <<>> THEN map
    ELSE LET kv    == Trim(parts[1])
             eq    == IndexIn(kv, {"="})
             name  == Trim(SubSeq(kv, 1, eq - 1))
             value == Trim(Drop(kv, eq))
             skip  == kv = <<>> \/ eq > Len(kv) \/ name = <<>> \/ IsTracking(name)
         IN  MergeParts(IF skip THEN map ELSE MapSet(map, name, value), Tail(parts))

RECURSIVE MergeStrings(_, _)
\* the outer loop of mergeCookies
MergeStrings(map, cookieStrings) ==
    IF cookieStrings = <<>> THEN map
    ELSE MergeStrings(MergeParts(map, Split(cookieStrings[1], ";")), Tail(cookieStrings))

RECURSIVE JoinPairs(_)
\* [...map.entries()].map(([k, v]) => `${k}=${v}`).join("; ")
JoinPairs(map) ==
    IF map = <<>> THEN <<>>
    ELSE map[1][1] \o <<"=">> \o map[1][2]
         \o (IF Len(map) > 1 THEN <<";", " ">> \o JoinPairs(Tail(map)) ELSE <<>>)

mergeCookies(cookieStrings, maxLen) ==
    LET merged == JoinPairs(MergeStrings(<<>>, cookieStrings))
    IN  IF Len(merged) > maxLen THEN SubSeq(merged, 1, maxLen) ELSE merged

\* [a, b].filter(Boolean)
FilterBoolean(strs) == SelectSeq(strs, LAMBDA x : Truthy(x))

(* request direction *)

\* copyRequestHeaders with the final cookie step left out when nothing is injected
copyRequestHeadersKeepCookie(reqHeaders, override) ==
    LET out == SetEach(CopyExcept(reqHeaders, HOP_BY_HOP \cup {"host", "content-length"}),
                       override)
    IN  IF Truthy(inject) THEN HSet(out, "cookie", inject) ELSE out

\* copyRequestHeaders without `if (k === "host") return`
copyRequestHeadersKeepHost(reqHeaders, override) ==
    LET out == SetEach(CopyExcept(reqHeaders, HOP_BY_HOP \cup {"content-length"}), override)
    IN  IF Truthy(inject) THEN HSet(out, "cookie", inject) ELSE HDelete(out, "cookie")

\* copyRequestHeaders of the /api/proxy route
copyRequestHeaders(reqHeaders, override) ==
    LET out == SetEach(CopyExcept(reqHeaders, HOP_BY_HOP \cup {"host", "content-length"}),
                       override)
    IN  IF Truthy(inject) THEN HSet(out, "cookie", inject) ELSE HDelete(out, "cookie")

\* copyRequestHeaders of the middleware: origin, referer and user-agent are spoofed inside
copyRequestHeadersMw(reqHeaders, override) ==
    LET spoof == << <<"origin", Origin(UpstreamUrl)>>,
                    <<"referer", Origin(UpstreamUrl) \o <<"/">> >>,
                    <<"user-agent", OrElse(ObjGet(override, "user-agent"), DefaultUserAgent)>> >>
        out == SetEach(CopyExcept(reqHeaders, HOP_BY_HOP \cup {"host", "content-length"}),
                       ObjSpread(spoof, override))
    IN  IF Truthy(inject) THEN HSet(out, "cookie", inject) ELSE HDelete(out, "cookie")

ForwardedNames == <<"accept", "accept-language", "cache-control", "pragma",
                    "upgrade-insecure-requests">>

RECURSIVE ForwardListed(_, _, _)
\* for (const h of [...]) { const v = req.headers.get(h); if (v) fwd.set(h, v); }
ForwardListed(fwd, reqHeaders, names) ==
    IF names = <<>> THEN fwd
    ELSE LET v == HGet(reqHeaders, names[1])
         IN  ForwardListed(IF Truthy(v) THEN HSet(fwd, names[1], v) ELSE fwd,
                           reqHeaders, Tail(names))

\* buildForwardHeaders of the turnitin routes; s.js keeps the caller's referer
buildForwardHeaders(v, reqHeaders) ==
    LET upstreamRef == <<"https", ":", "/", "/">> \o UPSTREAM_HOST \o <<"/">>
        f1 == ForwardListed(EmptyHeaders, reqHeaders, ForwardedNames)
        f2 == HSet(f1, "user-agent", OrElse(HGet(reqHeaders, "user-agent"), <<"Mozilla/5.0">>))
        f3 == HSet(f2, "referer",
                   IF v = "tns" THEN OrElse(HGet(reqHeaders, "referer"), upstreamRef)
                   ELSE upstreamRef)
        f4 == HSet(f3, "origin", <<"https", ":", "/", "/">> \o UPSTREAM_HOST)
        incomingCookie == OrElse(HGet(reqHeaders, "cookie"), <<>>)
        merged == mergeCookies(FilterBoolean(<<incomingCookie, inject>>), DefaultMaxLen)
    IN  IF Truthy(merged) THEN HSet(f4, "cookie", merged) ELSE f4

(* response direction *)

\* what the Headers object of an upstream response offers: getSetCookie() (undici today),
\* raw() (node-fetch), or neither, only get() (older undici)
HeadersKinds == {"getSetCookie", "raw", "get"}

\* new Headers(src): a Headers without getSetCookie()/raw() iterates set-cookie as one
\* combined entry; otherwise every occurrence is copied
NewHeaders(src) ==
    IF src.kind = "get" /\ "set-cookie" \in DOMAIN src.h
    THEN [src.h EXCEPT !["set-cookie"] = <<JoinVals(src.h["set-cookie"])>>]
    ELSE src.h

SanitizedNames == <<"content-security-policy-report-only", "report-to", "nel", "server",
                    "alt-svc", "transfer-encoding", "content-encoding">>

RECURSIVE DeleteEach(_, _)
\* for (const k of [...]) out.delete(k)
DeleteEach(out, names) ==
    IF names = <<>> THEN out ELSE DeleteEach(HDelete(out, names[1]), Tail(names))

\* sanitizeResponseHeaders(h), h the upstream response's Headers object [kind, h]
sanitizeResponseHeaders(src) == DeleteEach(NewHeaders(src), SanitizedNames)

RECURSIVE AppendEach(_, _, _)
\* for (const sc of list) dst.append(name, sc)
AppendEach(dst, name, list) ==
    IF list = <<>> THEN dst ELSE AppendEach(HAppend(dst, name, list[1]), name, Tail(list))

\* src.getSetCookie() and src.raw()["set-cookie"]: the occurrences, one by one
SetCookieList(h) == IF "set-cookie" \in DOMAIN h THEN h["set-cookie"] ELSE <<>>

\* copySetCookie(src, dst): the Headers dst after the call
copySetCookie(src, dst) ==
    IF src.kind = "getSetCookie"
    THEN AppendEach(dst, "set-cookie", SetCookieList(src.h))
    ELSE IF src.kind = "raw" /\ "set-cookie" \in DOMAIN src.h   \* Array.isArray(setCookies)
    THEN AppendEach(dst, "set-cookie", SetCookieList(src.h))
    ELSE LET sc == HGet(src.h, "set-cookie")
         IN  IF Truthy(sc) THEN HSet(dst, "set-cookie", sc) ELSE dst

\* copyResponseHeaders without `out.delete("set-cookie")`
copyResponseHeadersKeepSetCookie(srcHeaders, extra) ==
    SetEach(CopyExcept(srcHeaders, HOP_BY_HOP \cup {"content-length"}), extra)

\* copyResponseHeaders(src, extra), the same in middleware.js and route.js
copyResponseHeaders(srcHeaders, extra) ==
    HDelete(SetEach(CopyExcept(srcHeaders, HOP_BY_HOP \cup {"content-length"}), extra),
            "set-cookie")

\* corsHeaders(origin) of the /api/proxy route
corsHeaders(origin) ==
    << <<"access-control-allow-origin", Coalesce(origin, <<"*">>)>>,
       <<"access-control-allow-credentials", <<"true">> >>,
       <<"access-control-allow-headers", <<"*,authorization,content-type">> >>,
       <<"access-control-allow-methods", <<"GET,POST,PUT,PATCH,DELETE,OPTIONS">> >>,
       <<"access-control-max-age", <<"600">> >>,
       <<"vary", <<"Origin">> >> >>

\* ctype.includes("text/event-stream")
Includes(str, w) == \E i \in 1..Len(str) : str[i] = w

----------------------------------------------------------------------------
(* Inputs: what a client and the upstream can send *)

MaxPathLen == 3

MaxReqLines == 2

MaxResLines == 2

PathTokens == {"/", "x"}

\* pathnames of a parsed inbound URL: they start with "/"
Pathnames ==
    {p \in Strings(PathTokens, 1, MaxPathLen) : p[1] = "/"}
        \cup {<<"/", "_next", "/", "x">>, <<"/", "favicon.ico">>}

ApiPrefix == <<"/", "api", "/", "proxy">>

\* pathnames routed to app/api/proxy/[...path]
ApiPathnames == {ApiPrefix} \cup {ApiPrefix \o p : p \in Pathnames}

InboundOrigin == <<"http", ":", "/", "/", "localhost">>

ClientCookie == <<"a", "=", "1", ";", " ", "_", "G", "a", "=", "7">>

Credential == <<"s", "=", "2">>

MaxCookieStrings == 2

\* characters of a cookie string that take two bytes (one UTF-16 unit each)
WideChars == {"é"}

\* n times the character ch
Fill(n, ch) == [i \in 1..n |-> ch]

\* short cookie strings: "a=1; _ga=x", "a=2", "b=3;a=4", " b = 5 ; c", "_GID=9; =7; a=b=c",
\* "é=é"
CookieSamples ==
    { <<"a", "=", "1", ";", " ", "_", "g", "a", "=", "x">>,
      <<"a", "=", "2">>,
      <<"b", "=", "3", ";", "a", "=", "4">>,
      <<" ", "b", " ", "=", " ", "5", " ", ";", " ", "c">>,
      <<"_", "G", "I", "D", "=", "9", ";", " ", "=", "7", ";", " ", "a", "=", "b", "=", "c">>,
      <<"é", "=", "é">> }

\* cookie strings about as long as the cap: "a=vvv...v; b=34" cut at every place of its
\* tail, 5000 one-byte characters, 5000 bytes in 2501 characters, 4096 two-byte values
LongCookies ==
    { <<"a", "=">> \o Fill(n, "v") \o <<";", " ", "b", "=", "3", "4">> :
          n \in (DefaultMaxLen - 8)..(DefaultMaxLen - 2) }
        \cup { <<"a", "=">> \o Fill(DefaultMaxLen + 902, "v"),
               <<"a", "=">> \o Fill(2499, "é"),
               <<"a", "=">> \o Fill(DefaultMaxLen, "é") }

\* the sequences handed to mergeCookies
CookieSequences ==
    Strings(CookieSamples, 0, MaxCookieStrings) \cup {<<c>> : c \in LongCookies}

\* header lines a client can send, names in the letter case it chooses
ReqLines ==
    << <<"Connection", <<"keep-alive">> >>, <<"Keep-Alive", <<"timeout=5">> >>,
       <<"proxy-authenticate", <<"Basic">> >>, <<"proxy-authorization", <<"Basic">> >>,
       <<"TE", <<"trailers">> >>, <<"trailer", <<"x">> >>,
       <<"Transfer-Encoding", <<"chunked">> >>, <<"Upgrade", <<"websocket">> >>,
       <<"Host", <<"localhost">> >>, <<"Content-Length", <<"12">> >>,
       <<"Cookie", ClientCookie>>, <<"cookie", <<"s", "=", "0">> >>,
       <<"User-Agent", <<"ClientUA">> >>, <<"accept", <<"text/html">> >>,
       <<"Origin", <<"http://site">> >>, <<"referer", <<"http://site/page">> >>,
       <<"x-custom", <<"v">> >> >>

\* the lines of a sequence picked by a set of indices, in the sequence's order
RECURSIVE Pick(_, _, _)
Pick(lines, idx, i) ==
    IF i > Len(lines) THEN <<>>
    ELSE (IF i \in idx THEN <<lines[i]>> ELSE <<>>) \o Pick(lines, idx, i + 1)

LineSets(lines, max) ==
    {Pick(lines, idx, 1) : idx \in {S \in SUBSET (1..Len(lines)) : Cardinality(S) <= max}}

\* the inbound header sets the helpers are applied to on their own
ReqHeaderSets == {HeadersFromRaw(raw) : raw \in LineSets(ReqLines, MaxReqLines)}

\* the inbound header sets of whole exchanges: none, and what a browser sends
BrowserLines == {1, 5, 9, 10, 11, 13, 14, 15}

\* what a client sends besides method and pathname: a bare request, and a browser's
\* request with a query
ClientSends ==
    { [search |-> <<>>, headers |-> EmptyHeaders],
      [search |-> <<"?", "q">>, headers |-> HeadersFromRaw(Pick(ReqLines, BrowserLines, 1))] }

\* override objects copyRequestHeaders can be handed
Overrides ==
    { <<>>,
      << <<"origin", Origin(UpstreamUrl)>>, <<"referer", Origin(UpstreamUrl) \o <<"/">> >> >>,
      << <<"Cookie", <<"o", "=", "1">> >>, <<"user-agent", <<"OverrideUA">> >> >> }

\* header lines an upstream response can carry
ResLines ==
    << <<"set-cookie", <<"sid=1; Path=/">> >>, <<"Set-Cookie", <<"tok=2; HttpOnly">> >>,
       <<"Connection", <<"keep-alive">> >>, <<"keep-alive", <<"timeout=5">> >>,
       <<"Transfer-Encoding", <<"chunked">> >>, <<"upgrade", <<"h2c">> >>,
       <<"trailer", <<"x">> >>, <<"Content-Length", <<"10">> >>,
       <<"content-type", <<"text/html">> >>, <<"content-type", <<"text/event-stream">> >>,
       <<"cache-control", <<"max-age=60">> >>, <<"server", <<"nginx">> >>,
       <<"content-encoding", <<"gzip">> >>, <<"location", <<"/", "x">> >> >>

ResHeaderSets == {HeadersFromRaw(raw) : raw \in LineSets(ResLines, MaxResLines)}

\* extra objects copyResponseHeaders can be handed
Extras ==
    { <<>>,
      corsHeaders(Null) \o << <<"cache-control", <<"no-store">> >> >>,
      << <<"Set-Cookie", <<"x=1">> >>, <<"x-proxy-target", <<"chatgpt.com">> >> >> }

\* Location values of a redirect: path-absolute, relative, absolute (to another host),
\* unparsable ("//" has no host), and empty
Locations ==
    { <<"/", "x">>, <<"y">>, <<"https", ":", "/", "/", "evil.example", "/", "x">>,
      <<"/", "/">>, <<>> }

Response(status, lines, body) ==
    [status |-> status, headers |-> HeadersFromRaw(lines), body |-> body,
     kind |-> "getSetCookie", local |-> FALSE]

PageLines == Pick(ResLines, {1, 2, 3, 5, 8, 9, 11, 12}, 1)

TerminalResponses ==
    { Response(200, PageLines, "page"),
      Response(200, Pick(ResLines, {1, 10, 11}, 1), "events"),
      Response(404, Pick(ResLines, {9}, 1), "not found") }

RedirectResponses ==
    { Response(302, << <<"Location", loc>>, ResLines[1] >>, "moved") : loc \in Locations }
        \cup { Response(302, <<ResLines[1], ResLines[2]>>, "moved") }

UpstreamResponses == TerminalResponses \cup RedirectResponses

----------------------------------------------------------------------------
(* The exchange *)

NoCall == [url |-> <<>>, method |-> "", headers |-> EmptyHeaders, body |-> "none"]

NoResponse == [status |-> 0, headers |-> EmptyHeaders, body |-> "", kind |-> "getSetCookie",
               local |-> FALSE]

NoReturn == [status |-> 0, headers |-> EmptyHeaders, body |-> "", local |-> FALSE]

NoRequest == [method |-> "", url |-> <<>>, headers |-> EmptyHeaders, body |-> "none"]

NoFx == [fn |-> "", in |-> EmptyHeaders, arg |-> <<>>, out |-> EmptyHeaders]

Request(method, pathname, search, headers) ==
    [method |-> method, url |-> InboundOrigin \o pathname \o search, headers |-> headers,
     body |-> IF method \in {"GET", "HEAD", "OPTIONS"} THEN "none" ELSE "request body"]

TextPlain == HSet(EmptyHeaders, "content-type", <<"text/plain;charset=UTF-8">>)

\* new Response("Too many redirects from upstream", { status: 508 })
TooManyRedirects ==
    [status |-> 508, headers |-> TextPlain, body |-> "Too many redirects from upstream",
     kind |-> "getSetCookie", local |-> TRUE]

\* /^\/(?:_next\/|favicon\.ico$|robots\.txt$|sitemap\.xml$)/.test(pathname)
Bypassed(pathname) ==
    \/ StartsWith(pathname, <<"/", "_next", "/">>)
    \/ pathname \in {<<"/", "favicon.ico">>, <<"/", "robots.txt">>, <<"/", "sitemap.xml">>}

\* the middleware's response to an OPTIONS request
MwPreflight(r) ==
    SetEach(EmptyHeaders,
        << <<"access-control-allow-origin", Coalesce(HGet(r.headers, "origin"), <<"*">>)>>,
           <<"access-control-allow-credentials", <<"true">> >>,
           <<"access-control-allow-headers",
             OrElse(HGet(r.headers, "access-control-request-headers"),
                    <<"*,authorization,content-type">>)>>,
           <<"access-control-allow-methods",
             OrElse(HGet(r.headers, "access-control-request-method"),
                    <<"GET,POST,PUT,PATCH,DELETE,OPTIONS">>)>>,
           <<"access-control-max-age", <<"600">> >>,
           <<"vary", <<"Origin">> >> >>)

\* the middleware's upstream URL: new URL(inUrl.pathname, UPSTREAM), search mirrored
MwUpstreamUrl(reqUrl) ==
    LET inUrl == ParseURL(reqUrl, NoBase)
        u     == ParseURL(inUrl.path, UpstreamUrl)
    IN  IF u.ok THEN [u EXCEPT !.search = inUrl.search] ELSE u

\* pathname.replace(/^\/api\/proxy\/?/, "")
StripApiPrefix(pathname) ==
    IF StartsWith(pathname, ApiPrefix \o <<"/">>) THEN Drop(pathname, Len(ApiPrefix) + 1)
    ELSE IF StartsWith(pathname, ApiPrefix) THEN Drop(pathname, Len(ApiPrefix))
    ELSE pathname

\* buildUpstreamUrl(req) of the /api/proxy route, before toString()
buildUpstreamUrl(reqUrl) ==
    LET inUrl == ParseURL(reqUrl, NoBase)
        after == StripApiPrefix(inUrl.path)
        u     == ParseURL(IF after = <<>> THEN <<"/">> ELSE after, UpstreamUrl)
    IN  IF u.ok THEN [u EXCEPT !.search = inUrl.search] ELSE u

\* the turnitin routes' upstream URL: the inbound URL with protocol and host replaced
TnUpstreamUrl(reqUrl) ==
    [ParseURL(reqUrl, NoBase) EXCEPT !.scheme = <<"https">>, !.host = UPSTREAM_HOST]

\* the middleware's response without step 7 (no event-stream sniffing)
MwResponseNoSniff(r, up) ==
    [status |-> up.status,
     headers |-> copyResponseHeaders(up.headers,
            << <<"cache-control", OrElse(HGet(up.headers, "cache-control"), <<"no-store">>)>>,
               <<"access-control-allow-origin", Coalesce(HGet(r.headers, "origin"), <<"*">>)>>,
               <<"access-control-allow-credentials", <<"true">> >>,
               <<"vary", <<"Origin">> >>,
               <<"x-proxy-target", UpstreamUrl.host>> >>),
     body |-> up.body, local |-> up.local]

\* steps 6 and 7 of the middleware: the response built from upstreamRes
MwResponse(r, up) ==
    LET corsOrigin == Coalesce(HGet(r.headers, "origin"), <<"*">>)
        resHeaders == copyResponseHeaders(up.headers,
            << <<"cache-control", OrElse(HGet(up.headers, "cache-control"), <<"no-store">>)>>,
               <<"access-control-allow-origin", corsOrigin>>,
               <<"access-control-allow-credentials", <<"true">> >>,
               <<"vary", <<"Origin">> >>,
               <<"x-proxy-target", UpstreamUrl.host>> >>)
        ctype == OrElse(HGet(up.headers, "content-type"), <<>>)
    IN  [status |-> up.status,
         headers |-> IF Includes(ctype, "text/event-stream")
                     THEN HSet(resHeaders, "cache-control", <<"no-cache">>)
                     ELSE resHeaders,
         body |-> up.body, local |-> up.local]

\* the end of the /api/proxy handle: the response built from upstreamRes
ApiResponse(r, up) ==
    LET resHeaders == copyResponseHeaders(up.headers,
            ObjSpread(corsHeaders(HGet(r.headers, "origin")),
               << <<"cache-control", OrElse(HGet(up.headers, "cache-control"), <<"no-store">>)>>,
                  <<"x-proxy-target", UpstreamUrl.host>> >>))
        ctype == OrElse(HGet(up.headers, "content-type"), <<>>)
    IN  [status |-> up.status,
         headers |-> IF Includes(ctype, "text/event-stream")
                     THEN HSet(resHeaders, "cache-control", <<"no-cache">>)
                     ELSE resHeaders,
         body |-> up.body, local |-> up.local]

\* the end of the turnitin handle: the response built from upstreamResp
TnResponse(r, up) ==
    LET src == [kind |-> up.kind, h |-> up.headers]
        o1  == HSet(sanitizeResponseHeaders(src), "x-proxied-by", <<"next-node-runtime-proxy">>)
        o2  == HSet(o1, "access-control-allow-origin", Origin(ParseURL(r.url, NoBase)))
        o3  == HSet(o2, "vary", <<"origin">>)
    IN  [status |-> up.status, headers |-> copySetCookie(src, o3), body |-> up.body,
         local |-> up.local]

\* the turnitin routes' answer to a first fetch that throws
FetchFailed ==
    [status |-> 502,
     headers |-> HSet(EmptyHeaders, "content-type", <<"text/plain; charset=utf-8">>),
     body |-> "Upstream fetch failed", local |-> TRUE]

Returns(response) ==
    /\ pc' = "done"
    /\ res' = response

\* fetchFollow(url, init) entered: i = 0 and the first fetch is issued
StartFetchFollow(url, method, headers, body) ==
    /\ pc' = "fetchFollow"
    /\ hop' = 0
    /\ call' = [url |-> url, method |-> method, headers |-> headers, body |-> body]
    /\ nCalls' = 1
    /\ UNCHANGED res

\* middleware(req), up to its first await
Middleware ==
    /\ pc = "idle"
    /\ \E m \in {"GET", "POST", "OPTIONS"}, p \in Pathnames, c \in ClientSends :
        LET r == Request(m, p, c.search, c.headers)
            inUrl == ParseURL(r.url, NoBase)
            upstreamUrl == MwUpstreamUrl(r.url)
        IN  /\ req' = r
            /\ variant' = "mw"
            /\ IF Bypassed(inUrl.path)
               THEN /\ Returns([NoReturn EXCEPT !.body = "NextResponse.next()"])
                    /\ UNCHANGED <<call, nCalls, hop>>
               ELSE IF m \notin {"GET", "HEAD", "OPTIONS"}
               THEN /\ Returns([status |-> 405, headers |-> TextPlain,
                                body |-> "Edge middleware proxy supports only GET/HEAD",
                                local |-> TRUE])
                    /\ UNCHANGED <<call, nCalls, hop>>
               ELSE IF m = "OPTIONS"
               THEN /\ Returns([status |-> 204, headers |-> MwPreflight(r), body |-> "",
                                local |-> TRUE])
                    /\ UNCHANGED <<call, nCalls, hop>>
               ELSE IF ~upstreamUrl.ok
               THEN /\ pc' = "threw"
                    /\ UNCHANGED <<call, nCalls, hop, res>>
               ELSE StartFetchFollow(Serialize(upstreamUrl), m,
                                     copyRequestHeadersMw(r.headers, <<>>), "none")
    /\ UNCHANGED <<inject, netFail, prevUrl, lastRes, nRedir, onlyRedir, fx>>

\* OPTIONS(req) of the /api/proxy route
ApiOptions ==
    /\ pc = "idle"
    /\ \E p \in ApiPathnames, c \in ClientSends :
        LET r == Request("OPTIONS", p, c.search, c.headers)
        IN  /\ req' = r
            /\ variant' = "api"
            /\ Returns([status |-> 204,
                        headers |-> SetEach(EmptyHeaders, corsHeaders(HGet(r.headers, "origin"))),
                        body |-> "", local |-> TRUE])
    /\ UNCHANGED <<inject, netFail, call, prevUrl, nCalls, hop, lastRes, nRedir, onlyRedir, fx>>

\* handle(req) of the /api/proxy route, up to its first await
ApiHandle ==
    /\ pc = "idle"
    /\ \E m \in {"GET", "POST"}, p \in ApiPathnames, c \in ClientSends :
        LET r == Request(m, p, c.search, c.headers)
            upstreamUrl == buildUpstreamUrl(r.url)
            spoof == << <<"origin", Origin(UpstreamUrl)>>,
                        <<"referer", Origin(UpstreamUrl) \o <<"/">> >> >>
            hasBody == m \notin {"GET", "HEAD"}
        IN  /\ req' = r
            /\ variant' = "api"
            /\ IF ~upstreamUrl.ok
               THEN /\ pc' = "threw"
                    /\ UNCHANGED <<call, nCalls, hop, res>>
               ELSE StartFetchFollow(Serialize(upstreamUrl), m,
                                     copyRequestHeaders(r.headers, spoof),
                                     IF hasBody THEN r.body ELSE "none")
    /\ UNCHANGED <<inject, netFail, prevUrl, lastRes, nRedir, onlyRedir, fx>>

\* new URL(loc, UPSTREAM): the Location resolved against the upstream, not the current URL
ResolveLocationAgainstUpstream(loc, current) == ParseURL(loc, UpstreamUrl)

\* new URL(loc, current) in fetchFollow
ResolveLocation(loc, current) == ParseURL(loc, ParseURL(current, NoBase))

\* the response the exchange of a fetchFollow variant returns for upstreamRes
FollowResponse(up) == IF variant = "mw" THEN MwResponse(req, up) ELSE ApiResponse(req, up)

\* `await fetch(current, ...)` of fetchFollow resolves with `up`: the rest of the loop
\* body, and either the next fetch or the handler's return
FetchFollowResolves ==
    /\ pc = "fetchFollow"
    /\ \E up \in UpstreamResponses :
        LET loc    == HGet(up.headers, "location")
            target == ResolveLocation(loc, call.url)
        IN  /\ lastRes' = up
            /\ IF up.status >= 300 /\ up.status < 400 /\ Truthy(loc)
               THEN /\ nRedir' = nRedir + 1
                    /\ UNCHANGED onlyRedir
                    /\ IF ~target.ok
                       THEN /\ pc' = "threw"
                            /\ UNCHANGED <<call, prevUrl, nCalls, hop, res>>
                       ELSE IF hop + 1 < DefaultMaxHops
                       THEN /\ pc' = "fetchFollow"
                            /\ hop' = hop + 1
                            /\ call' = [call EXCEPT !.url = Serialize(target)]
                            /\ prevUrl' = call.url
                            /\ nCalls' = nCalls + 1
                            /\ UNCHANGED res
                       ELSE /\ hop' = hop + 1
                            /\ Returns(FollowResponse(TooManyRedirects))
                            /\ UNCHANGED <<call, prevUrl, nCalls>>
               ELSE /\ onlyRedir' = FALSE
                    /\ Returns(FollowResponse(up))
                    /\ UNCHANGED <<call, prevUrl, nCalls, hop, nRedir>>
    /\ UNCHANGED <<inject, netFail, variant, req, fx>>

\* `await fetch(current, ...)` of fetchFollow rejects: nothing catches it
FetchFollowRejects ==
    /\ pc = "fetchFollow"
    /\ pc' = "threw"
    /\ netFail' = IF nCalls = 1 THEN "first" ELSE "hop"
    /\ UNCHANGED <<inject, variant, req, call, prevUrl, nCalls, hop, lastRes, nRedir,
                   onlyRedir, res, fx>>

\* handle(req) of the turnitin routes, up to its first await.  route.js exports it as
\* GET and HEAD; s.js exports it for every method, OPTIONS included
TnHandle ==
    /\ pc = "idle"
    /\ \E v \in TurnitinVariants, p \in Pathnames, c \in ClientSends :
       \E m \in (IF v = "tn" THEN {"GET"} ELSE {"GET", "POST", "OPTIONS"}) :
        LET r == Request(m, p, c.search, c.headers)
        IN  /\ req' = r
            /\ variant' = v
            /\ pc' = "fetch"
            /\ call' = [url |-> Serialize(TnUpstreamUrl(r.url)), method |-> m,
                        headers |-> buildForwardHeaders(v, r.headers), body |-> "none"]
            /\ nCalls' = 1
    /\ UNCHANGED <<inject, netFail, prevUrl, hop, lastRes, nRedir, onlyRedir, res, fx>>

\* the first `await fetch(...)` of the turnitin handle resolves with `up` (redirects were
\* followed by the transport).  On a 404 for a path without trailing slash, s.js issues
\* the retry; in route.js the retry's `method` is not defined, the ReferenceError is
\* caught by the retry's own catch and the 404 is kept
TnFetchResolves ==
    /\ pc = "fetch"
    /\ \E up0 \in UpstreamResponses, k \in HeadersKinds :
        LET up == [up0 EXCEPT !.kind = k]
            upstream == ParseURL(call.url, NoBase)
        IN  /\ lastRes' = up
            /\ IF up.status = 404 /\ ~EndsWith(upstream.path, <<"/">>) /\ variant = "tns"
               THEN /\ pc' = "retry"
                    /\ call' = [call EXCEPT !.url =
                                   Serialize([upstream EXCEPT !.path = upstream.path \o <<"/">>])]
                    /\ prevUrl' = call.url
                    /\ nCalls' = nCalls + 1
                    /\ UNCHANGED res
               ELSE /\ Returns(TnResponse(req, up))
                    /\ UNCHANGED <<call, prevUrl, nCalls>>
    /\ UNCHANGED <<inject, netFail, variant, req, hop, nRedir, onlyRedir, fx>>

\* the first `await fetch(...)` of the turnitin handle rejects: status 502
TnFetchRejects ==
    /\ pc = "fetch"
    /\ Returns(FetchFailed)
    /\ netFail' = "first"
    /\ UNCHANGED <<inject, variant, req, call, prevUrl, nCalls, hop, lastRes, nRedir,
                   onlyRedir, fx>>

\* the retry's `await fetch(...)` resolves: its response replaces the 404
TnRetryResolves ==
    /\ pc = "retry"
    /\ \E up0 \in UpstreamResponses, k \in HeadersKinds :
        LET up == [up0 EXCEPT !.kind = k]
        IN  /\ lastRes' = up
            /\ Returns(TnResponse(req, up))
    /\ UNCHANGED <<inject, netFail, variant, req, call, prevUrl, nCalls, hop, nRedir, onlyRedir, fx>>

\* the retry's `await fetch(...)` rejects: catch {} keeps the original 404
TnRetryRejects ==
    /\ pc = "retry"
    /\ Returns(TnResponse(req, lastRes))
    /\ netFail' = "retry"
    /\ UNCHANGED <<inject, variant, req, call, prevUrl, nCalls, hop, lastRes, nRedir,
                   onlyRedir, fx>>

----------------------------------------------------------------------------
(* The helpers applied on their own, to every bounded input *)

Applied(fn, in, arg, out) ==
    /\ pc' = "applied"
    /\ fx' = [fn |-> fn, in |-> in, arg |-> arg, out |-> out]
    /\ UNCHANGED <<inject, variant, req, call, prevUrl, nCalls, hop, lastRes, nRedir,
                   onlyRedir, netFail, res>>

ApplyCopyRequestHeaders ==
    /\ pc = "idle"
    /\ \E h \in ReqHeaderSets, o \in Overrides :
        Applied("copyRequestHeaders", h, o, copyRequestHeaders(h, o))

ApplyCopyRequestHeadersMw ==
    /\ pc = "idle"
    /\ \E h \in ReqHeaderSets, o \in Overrides :
        Applied("copyRequestHeadersMw", h, o, copyRequestHeadersMw(h, o))

ApplyBuildForwardHeaders ==
    /\ pc = "idle"
    /\ \E h \in ReqHeaderSets, v \in TurnitinVariants :
        Applied("buildForwardHeaders", h, <<v>>, buildForwardHeaders(v, h))

ApplyCopyResponseHeaders ==
    /\ pc = "idle"
    /\ \E h \in ResHeaderSets, e \in Extras :
        Applied("copyResponseHeaders", h, e, copyResponseHeaders(h, e))

ApplyMergeCookies ==
    /\ pc = "idle"
    /\ \E cs \in CookieSequences :
        Applied("mergeCookies", cs, DefaultMaxLen, mergeCookies(cs, DefaultMaxLen))

\* the forwarding cookie policy: sanitizeResponseHeaders, then copySetCookie
ApplyForwardSetCookie ==
    /\ pc = "idle"
    /\ \E h \in ResHeaderSets, k \in HeadersKinds :
        LET src == [kind |-> k, h |-> h]
        IN  Applied("forwardSetCookie", h, <<k>>,
                    copySetCookie(src, sanitizeResponseHeaders(src)))

----------------------------------------------------------------------------

Init ==
    /\ inject \in {<<>>, Credential}
    /\ pc = "idle"
    /\ variant = ""
    /\ req = NoRequest
    /\ call = NoCall
    /\ prevUrl = <<>>
    /\ nCalls = 0
    /\ hop = 0
    /\ lastRes = NoResponse
    /\ nRedir = 0
    /\ onlyRedir = TRUE
    /\ netFail = "none"
    /\ res = NoReturn
    /\ fx = NoFx

Next ==
    \/ Middleware
    \/ ApiOptions
    \/ ApiHandle
    \/ FetchFollowResolves
    \/ FetchFollowRejects
    \/ TnHandle
    \/ TnFetchResolves
    \/ TnFetchRejects
    \/ TnRetryResolves
    \/ TnRetryRejects
    \/ ApplyCopyRequestHeaders
    \/ ApplyCopyRequestHeadersMw
    \/ ApplyBuildForwardHeaders
    \/ ApplyCopyResponseHeaders
    \/ ApplyMergeCookies
    \/ ApplyForwardSetCookie

Spec == Init /\ [][Next]_vars

----------------------------------------------------------------------------
(* Properties *)

HopByHopNames == {"connection", "keep-alive", "proxy-authenticate", "proxy-authorization",
                  "te", "trailer", "transfer-encoding", "upgrade"}

IsRedirect(up) == up.status >= 300 /\ up.status < 400

ApiSpoof == << <<"origin", Origin(UpstreamUrl)>>, <<"referer", Origin(UpstreamUrl) \o <<"/">> >> >>

\* C1: the URL of the first outbound request of an exchange has the configured
\* upstream's scheme (https) and host, whatever path and query the client sent.
C1_FirstRequestGoesToUpstream ==
    (nCalls = 1 /\ pc \in {"fetchFollow", "fetch"}) =>
        LET u == ParseURL(call.url, NoBase)
        IN  u.ok /\ u.scheme = <<"https">> /\ u.host = UpstreamHostOf(variant)

\* C2: under the forwarding cookie policy (sanitizeResponseHeaders, then copySetCookie)
\* the returned header set carries exactly the upstream's Set-Cookie values, as separate
\* occurrences in the same order: none merged, none dropped, none repeated.
C2_SetCookieForwardedOnceEach ==
    /\ fx.fn = "forwardSetCookie" => SetCookieList(fx.out) = SetCookieList(fx.in)
    /\ (variant \in TurnitinVariants /\ pc = "done" /\ ~res.local) =>
            SetCookieList(res.headers) = SetCookieList(lastRes.headers)

\* C3: in fetchFollow, when upstream answered every request with a 3xx carrying a
\* Location header, the exchange ends Exhausted: the synthesized 508 is returned, and
\* never more than maxHops outbound requests are issued.
C3_AllRedirectsEndExhausted ==
    /\ nCalls <= DefaultMaxHops
    /\ (variant \in FetchFollowVariants /\ pc \in {"done", "threw"} /\ nCalls >= 1
            /\ netFail = "none" /\ onlyRedir) =>
        (pc = "done" /\ res.status = 508 /\ res.local /\ nCalls = DefaultMaxHops)

\* C4: in fetchFollow, after k < maxHops redirects (3xx with a Location) followed by a
\* non-redirect answer, that answer's status and body are returned, exactly k + 1
\* outbound requests were made, and each request after the first went to the Location
\* of the previous response resolved against the previous request's URL.
C4_ChainResolvesToFinalResponse ==
    /\ (variant \in FetchFollowVariants /\ pc = "fetchFollow" /\ nCalls >= 2) =>
            LET to == ParseURL(HGet(lastRes.headers, "location"), ParseURL(prevUrl, NoBase))
            IN  to.ok /\ call.url = Serialize(to) /\ nCalls = nRedir + 1
    /\ (variant \in FetchFollowVariants /\ pc = "done" /\ nCalls >= 1 /\ ~IsRedirect(lastRes)) =>
            /\ res.status = lastRes.status
            /\ res.body = lastRes.body
            /\ ~res.local
            /\ nCalls = nRedir + 1
            /\ nRedir < DefaultMaxHops

C4_Witness ==
    /\ variant \in FetchFollowVariants /\ pc = "done"
    /\ nRedir = DefaultMaxHops - 1 /\ nCalls = DefaultMaxHops
    /\ lastRes.status = 200 /\ res.status = 200 /\ res.body = "page"
    /\ ParseURL(call.url, NoBase).path = <<"/", "x", "/", "y">>

\* C5: a fetch that throws, on the first request or on a later redirect hop, makes the
\* handler return status 502 with a plain-text body; the failure never leaves the
\* handler as an exception.
C5_FetchFailureYields502 ==
    netFail \in {"first", "hop"} =>
        /\ pc = "done"
        /\ res.status = 502
        /\ HHas(res.headers, "content-type")
        /\ res.local

\* C6: in fetchFollow, a 3xx answer whose Location is missing, or does not parse
\* against the current URL, ends the exchange with that redirect response returned
\* unresolved; the exchange does not fail.
C6_BadLocationPassedThrough ==
    (variant \in FetchFollowVariants /\ pc \in {"done", "threw"} /\ nCalls >= 1
        /\ netFail = "none" /\ IsRedirect(lastRes)
        /\ LET loc == HGet(lastRes.headers, "location")
           IN  ~Truthy(loc) \/ ~ParseURL(loc, ParseURL(call.url, NoBase)).ok) =>
        (pc = "done" /\ res.status = lastRes.status /\ res.body = lastRes.body /\ ~res.local)

\* the Cookie header of an outbound header set under strip-and-inject
OnlyCredential(h) ==
    IF inject # <<>> THEN "cookie" \in DOMAIN h /\ h["cookie"] = <<inject>>
    ELSE "cookie" \notin DOMAIN h

\* C7: in strip-and-inject mode (copyRequestHeaders), for every inbound header set and
\* every override set, the outbound Cookie header is exactly the configured credential
\* when it is non-empty and absent otherwise.
C7_CookieIsCredentialOnly ==
    /\ fx.fn \in {"copyRequestHeaders", "copyRequestHeadersMw"} => OnlyCredential(fx.out)
    /\ (variant \in FetchFollowVariants /\ nCalls >= 1) => OnlyCredential(call.headers)

C7_Witness ==
    /\ fx.fn = "copyRequestHeaders"
    /\ inject = <<>>
    /\ "cookie" \in DOMAIN fx.in
    /\ \E i \in 1..Len(fx.arg) : fx.arg[i][1] = "Cookie"

\* C8: under the strip cookie policy (copyResponseHeaders) the returned header set
\* holds no Set-Cookie header, for every upstream response and every extras object, and
\* on every terminal path of the exchange.
C8_NoSetCookieUnderStrip ==
    /\ fx.fn = "copyResponseHeaders" => ~HHas(fx.out, "set-cookie")
    /\ (variant \in FetchFollowVariants /\ pc = "done") => ~HHas(res.headers, "set-cookie")

C8_Witness ==
    /\ variant \in FetchFollowVariants /\ pc = "done"
    /\ nRedir >= 1
    /\ IsRedirect(lastRes) /\ ~HHas(lastRes.headers, "location")
    /\ HHas(lastRes.headers, "set-cookie")
    /\ res.status = lastRes.status

NoHopByHopNorHost(h) == \A n \in DOMAIN h : ToLower(n) \notin HopByHopNames \cup {"host"}

\* C9: in every variant the outbound request header set holds no hop-by-hop header
\* and no host header, whatever headers (in any letter case) the client sent.
C9_NoHopByHopOutbound ==
    /\ (\/ fx.fn = "copyRequestHeaders" /\ fx.arg = ApiSpoof
        \/ fx.fn = "copyRequestHeadersMw" /\ fx.arg = <<>>
        \/ fx.fn = "buildForwardHeaders") => NoHopByHopNorHost(fx.out)
    /\ nCalls >= 1 => NoHopByHopNorHost(call.headers)

C9_Witness ==
    /\ fx.fn = "copyRequestHeaders" /\ fx.arg = ApiSpoof
    /\ {"connection", "host"} \subseteq DOMAIN fx.in
    /\ "origin" \in DOMAIN fx.out

\* C10: in every variant the header set returned to the caller holds no hop-by-hop
\* header and no content-length copied from upstream.
C10_NoHopByHopInbound ==
    /\ fx.fn = "forwardSetCookie" =>
            \A n \in DOMAIN fx.out : ToLower(n) \notin HopByHopNames \cup {"content-length"}
    /\ (pc = "done" /\ ~res.local) =>
            \A n \in DOMAIN res.headers : ToLower(n) \notin HopByHopNames \cup {"content-length"}

\* the exchange is one the variant serves itself: the middleware hands /_next/... and the
\* well-known files through to Next untouched
Served ==
    /\ pc \in {"fetchFollow", "fetch", "retry", "done", "threw"}
    /\ ~(variant = "mw" /\ Bypassed(ParseURL(req.url, NoBase).path))

\* C11: in every variant an inbound OPTIONS request, whatever its path and headers, is
\* answered with status 204 and access-control-allow-origin equal to the inbound Origin
\* ("*" when there is none), and causes no outbound request.
C11_OptionsShortCircuits ==
    (Served /\ req.method = "OPTIONS") =>
        /\ nCalls = 0
        /\ pc = "done"
        /\ res.status = 204
        /\ HGet(res.headers, "access-control-allow-origin")
              = Coalesce(HGet(req.headers, "origin"), <<"*">>)

(* the cookie jar of spec section 3, computed from the input on its own *)

\* the <<name, value>> pairs of one cookie string, in order: every ";"-separated part
\* that holds "=" after a non-empty name
PairsOf(str) ==
    LET parts == Split(str, ";")
        pair(i) == LET kv == Trim(parts[i])
                       eq == IndexIn(kv, {"="})
                   IN  <<Trim(SubSeq(kv, 1, eq - 1)), Trim(Drop(kv, eq)), eq <= Len(kv)>>
    IN  SelectSeq([i \in 1..Len(parts) |-> pair(i)], LAMBDA q : q[3] /\ q[1] # <<>>)

RECURSIVE AllPairs(_)
\* the pairs of a sequence of cookie strings, in order
AllPairs(strs) == IF strs = <<>> THEN <<>> ELSE PairsOf(strs[1]) \o AllPairs(Tail(strs))

\* the value of the last occurrence of name among pairs
LastValue(pairs, name) ==
    LET last == CHOOSE i \in 1..Len(pairs) :
                    /\ pairs[i][1] = name
                    /\ \A j \in (i + 1)..Len(pairs) : pairs[j][1] # name
    IN  pairs[last][2]

\* the names of the jar: every name of the input that is no tracking name
JarNames(pairs) == {pairs[i][1] : i \in {j \in 1..Len(pairs) : ~IsTracking(pairs[j][1])}}

\* bytes of a string: one per character, two per wide character
ByteLength(str) == Len(str) + Cardinality({i \in 1..Len(str) : str[i] \in WideChars})

RECURSIVE JarSize(_, _, _)
\* the size of "name=value" over the names, in bytes or in characters (UTF-16 units)
JarSize(pairs, names, bytes) ==
    IF names = {} THEN 0
    ELSE LET n == CHOOSE n \in names : TRUE
             v == LastValue(pairs, n)
         IN  (IF bytes THEN ByteLength(n) + ByteLength(v) ELSE Len(n) + Len(v)) + 1
                 + JarSize(pairs, names \ {n}, bytes)

\* the size of the jar serialized as "n1=v1; n2=v2; ..." without any cap
SerializedSize(strs, bytes) ==
    LET pairs == AllPairs(strs)
        names == JarNames(pairs)
    IN  JarSize(pairs, names, bytes) + (IF names = {} THEN 0 ELSE 2 * (Cardinality(names) - 1))

\* every name of the output carries the value of its last occurrence in the input, and
\* none is a tracking name
LastOccurrenceWins(strs, out) ==
    LET inPairs  == AllPairs(strs)
        outPairs == AllPairs(<<out>>)
    IN  \A i \in 1..Len(outPairs) :
            /\ ~IsTracking(outPairs[i][1])
            /\ \E j \in 1..Len(inPairs) : inPairs[j][1] = outPairs[i][1]
            /\ outPairs[i][2] = LastValue(inPairs, outPairs[i][1])

SpecExample == << <<"a", "=", "1", ";", " ", "_", "g", "a", "=", "x">>, <<"a", "=", "2">> >>

\* C12 as stated: for every sequence of cookie strings handed to mergeCookies, each name
\* of the output carries the value of its last occurrence in the sequence and no output
\* name starts with a tracking prefix; ["a=1; _ga=x", "a=2"] merges to "a=2".
C12_LastOccurrenceWinsAlways ==
    fx.fn = "mergeCookies" =>
        /\ LastOccurrenceWins(fx.in, fx.out)
        /\ fx.in = SpecExample => fx.out = <<"a", "=", "2">>

\* C12 amended: the same for every sequence whose serialized jar is no longer than the
\* cap, so that mergeCookies returns it uncut.
C12_LastOccurrenceWinsUncut ==
    (fx.fn = "mergeCookies" /\ SerializedSize(fx.in, FALSE) <= fx.arg) =>
        /\ LastOccurrenceWins(fx.in, fx.out)
        /\ fx.in = SpecExample => fx.out = <<"a", "=", "2">>

C12_Witness ==
    /\ fx.fn = "mergeCookies"
    /\ fx.in = SpecExample
    /\ fx.out = <<"a", "=", "2">>

\* C13: for every input of mergeCookies, characters of more than one byte included, the
\* byte length of the output never exceeds the cap (4096), and is the cap exactly when
\* the uncut serialized form is longer than the cap.
C13_ByteLengthCapped ==
    fx.fn = "mergeCookies" =>
        /\ ByteLength(fx.out) <= fx.arg
        /\ SerializedSize(fx.in, TRUE) > fx.arg => ByteLength(fx.out) = fx.arg

\* C14 as stated: running mergeCookies twice on the same input gives the same output,
\* and running it on its own output, as the only string, returns that output unchanged,
\* also when the first run cut at the cap.
C14_IdempotentAlways ==
    fx.fn = "mergeCookies" =>
        /\ mergeCookies(fx.in, fx.arg) = fx.out
        /\ mergeCookies(<<fx.out>>, fx.arg) = fx.out

\* C14 amended: running mergeCookies on its own output returns that output unchanged
\* whenever the first run did not cut at the cap.
C14_IdempotentUncut ==
    (fx.fn = "mergeCookies" /\ SerializedSize(fx.in, FALSE) <= fx.arg) =>
        mergeCookies(<<fx.out>>, fx.arg) = fx.out

C14_Witness ==
    /\ fx.fn = "mergeCookies"
    /\ Len(fx.in) = 2
    /\ Len(AllPairs(<<fx.out>>)) >= 2
    /\ fx.out # fx.in[1]
    /\ SerializedSize(fx.in, FALSE) <= fx.arg

C16_InboundUserAgentKept ==
    /\ (nCalls >= 1 /\ HHas(req.headers, "user-agent")) =>
            HGet(call.headers, "user-agent") = HGet(req.headers, "user-agent")
    /\ (fx.fn = "copyRequestHeadersMw" /\ fx.arg = <<>> /\ HHas(fx.in, "user-agent")) =>
            HGet(fx.out, "user-agent") = HGet(fx.in, "user-agent")

\* C17: in the turnitin variants, a first response with status 404 for a path without
\* trailing "/" is followed by exactly one more request, to the same URL with "/"
\* appended to the path and the same method and headers, whose response is returned; in
\* every other case no retry is made, and an exchange makes at most 2 outbound calls.
C17_RetryOnceOn404 ==
    variant \in TurnitinVariants =>
        /\ nCalls <= 2
        /\ (pc = "done" /\ nCalls = 1 /\ netFail = "none") =>
                ~(lastRes.status = 404
                    /\ ~EndsWith(ParseURL(call.url, NoBase).path, <<"/">>))
        /\ pc = "retry" =>
                LET first == ParseURL(prevUrl, NoBase)
                IN  /\ lastRes.status = 404
                    /\ ~EndsWith(first.path, <<"/">>)
                    /\ call.url = Serialize([first EXCEPT !.path = first.path \o <<"/">>])
                    /\ call.method = req.method
                    /\ call.headers = buildForwardHeaders(variant, req.headers)
        /\ (pc = "done" /\ nCalls = 2 /\ netFail = "none") =>
                res.status = lastRes.status /\ res.body = lastRes.body

\* C18: a variant that does not relay the inbound body answers POST, PUT, PATCH and
\* DELETE with status 405 and a plain-text body and makes no outbound request; a variant
\* that accepts them passes the inbound body on the outbound request.
C18_BodyMethodsRejectedOrRelayed ==
    (Served /\ req.method \in {"POST", "PUT", "PATCH", "DELETE"}) =>
        IF nCalls = 0
        THEN pc = "done" => (res.status = 405 /\ res.local /\ res.headers = TextPlain)
        ELSE call.body = req.body

\* C19: fetchFollow follows redirects up to maxHops (5) times: after 5 redirects, each
\* with a Location, a sixth request is made whose non-redirect answer is returned, and
\* the synthesized 508 is returned only when upstream has produced more than 5
\* consecutive redirects.
C19_FiveRedirectsThenSixthRequest ==
    variant \in FetchFollowVariants =>
        /\ (pc = "done" /\ res.local /\ res.status = 508) => nRedir > DefaultMaxHops
        /\ (nRedir = DefaultMaxHops /\ pc # "threw") =>
                pc = "fetchFollow" /\ nCalls = DefaultMaxHops + 1

\* the Cookie header of a header set holds a name=value pair of the configured credential
CarriesCredential(h) ==
    /\ inject # <<>>
    /\ HHas(h, "cookie")
    /\ LET sent == AllPairs(<<HGet(h, "cookie")>>)
           cred == AllPairs(<<inject>>)
       IN  \E i \in 1..Len(sent), j \in 1..Len(cred) : sent[i] = cred[j]

\* C20: every outbound request whose Cookie header carries the operator's credential
\* is addressed to the configured upstream host, across every redirect chain.
C20_CredentialOnlyToUpstream ==
    (nCalls >= 1 /\ CarriesCredential(call.headers)) =>
        ParseURL(call.url, NoBase).host = UpstreamHostOf(variant)

====
